---- MODULE Spec2Model ----
(***************************************************************************)
(* State-machine model of crates/stegano-wasm/src/lib.rs: the two          *)
(* wasm-bindgen entry points hide_data and unveil_data.                    *)
(*                                                                         *)
(* Machine integers (u32, usize on wasm32) and f64 values are wider than   *)
(* the integers of the model checker, so they are carried as limb          *)
(* sequences: a natural number is the little-endian sequence of its        *)
(* base-2^13 digits without leading zero digits (0 is <<>>, 100 is         *)
(* <<100>>, u32::MAX is <<8191, 8191, 63>>).  The f64 operations used by   *)
(* the resize computation are IEEE-754 binary64 with round-to-nearest-even *)
(* on these numbers.                                                       *)
(***************************************************************************)
EXTENDS Integers, Sequences, FiniteSets, TLC

\* ---------------------------------------------------------------------------
\* Natural numbers as limb sequences
\* ---------------------------------------------------------------------------
LimbBits == 12 + 1
Base == 2^LimbBits

RECURSIVE BNorm(_)
BNorm(a) ==
  IF Len(a) > 0 /\ a[Len(a)] = 0 THEN BNorm(SubSeq(a, 1, Len(a) - 1)) ELSE a

RECURSIVE BNat(_)
BNat(i) == IF i = 0 THEN <<>> ELSE <<i % Base>> \o BNat(i \div Base)

Limb(a, i) == IF i <= Len(a) THEN a[i] ELSE 0

Zero == <<>>
One == <<1>>

RECURSIVE AddC(_, _, _, _)
AddC(a, b, i, c) ==
  IF i > Len(a) /\ i > Len(b)
  THEN (IF c = 0 THEN <<>> ELSE <<c>>)
  ELSE LET s == Limb(a, i) + Limb(b, i) + c
       IN  <<s % Base>> \o AddC(a, b, i + 1, s \div Base)

BAdd(a, b) == AddC(a, b, 1, 0)

RECURSIVE SubC(_, _, _, _)
SubC(a, b, i, c) ==
  IF i > Len(a)
  THEN <<>>
  ELSE LET s == Limb(a, i) - Limb(b, i) - c
       IN  IF s < 0 THEN <<s + Base>> \o SubC(a, b, i + 1, 1)
                    ELSE <<s>> \o SubC(a, b, i + 1, 0)

\* a - b, for a >= b
BSub(a, b) == BNorm(SubC(a, b, 1, 0))

RECURSIVE CmpFrom(_, _, _)
CmpFrom(a, b, i) ==
  IF i = 0 THEN 0
  ELSE IF a[i] < b[i] THEN -1
  ELSE IF a[i] > b[i] THEN 1
  ELSE CmpFrom(a, b, i - 1)

BCmp(a, b) ==
  IF Len(a) < Len(b) THEN -1
  ELSE IF Len(a) > Len(b) THEN 1
  ELSE CmpFrom(a, b, Len(a))

BLeq(a, b) == BCmp(a, b) <= 0
BLt(a, b) == BCmp(a, b) < 0

RECURSIVE MulSmallC(_, _, _, _)
MulSmallC(a, k, i, c) ==
  IF i > Len(a)
  THEN (IF c = 0 THEN <<>> ELSE <<c>>)
  ELSE LET s == a[i] * k + c
       IN  <<s % Base>> \o MulSmallC(a, k, i + 1, s \div Base)

\* a * k, for 0 <= k < Base
BMulSmall(a, k) == IF k = 0 THEN <<>> ELSE MulSmallC(a, k, 1, 0)

BShlLimbs(a, q) == IF a = <<>> THEN <<>> ELSE [i \in 1..q |-> 0] \o a

RECURSIVE MulFrom(_, _, _)
MulFrom(a, b, j) ==
  IF j > Len(b)
  THEN <<>>
  ELSE BAdd(BShlLimbs(BMulSmall(a, b[j]), j - 1), MulFrom(a, b, j + 1))

BMul(a, b) == MulFrom(a, b, 1)

\* a * 2^s
BShl(a, s) == BShlLimbs(BMulSmall(a, 2^(s % LimbBits)), s \div LimbBits)

RECURSIVE DivSmallC(_, _, _, _)
DivSmallC(a, d, i, r) ==
  IF i = 0
  THEN <<>>
  ELSE LET s == r * Base + a[i]
       IN  DivSmallC(a, d, i - 1, s % d) \o <<s \div d>>

\* floor(a / d), for 0 < d <= Base
BDivSmall(a, d) == BNorm(DivSmallC(a, d, Len(a), 0))

\* floor(a / 2^s)
BShr(a, s) ==
  IF s \div LimbBits >= Len(a)
  THEN <<>>
  ELSE BDivSmall(SubSeq(a, s \div LimbBits + 1, Len(a)), 2^(s % LimbBits))

RECURSIVE IntBitLen(_)
IntBitLen(k) == IF k = 0 THEN 0 ELSE 1 + IntBitLen(k \div 2)

BBitLen(a) ==
  IF a = <<>> THEN 0 ELSE (Len(a) - 1) * LimbBits + IntBitLen(a[Len(a)])

\* a mod 2^bits: the low bits a machine word of that width keeps
BMod2Pow(a, bits) == BSub(a, BShl(BShr(a, bits), bits))

\* One step of binary long division at bit position i.
DivStep(st, b, i) ==
  LET t == BShl(b, i)
  IN  IF BLeq(t, st.rem)
      THEN [quot |-> BAdd(st.quot, BShl(One, i)), rem |-> BSub(st.rem, t)]
      ELSE st

\* The division steps for bit positions hi down to lo (split in halves, so
\* that the nesting stays logarithmic in the number of bits).
RECURSIVE DivRange(_, _, _, _)
DivRange(st, b, hi, lo) ==
  IF hi < lo THEN st
  ELSE IF hi = lo THEN DivStep(st, b, hi)
  ELSE LET mid == (hi + lo + 1) \div 2
           upper == DivRange(st, b, hi, mid)
       IN  IF upper.rem = Zero THEN upper
           ELSE DivRange(upper, b, mid - 1, lo)

\* [quot, rem] of a / b, for b > 0
BDivMod(a, b) ==
  DivRange([quot |-> Zero, rem |-> a], b, BBitLen(a) - BBitLen(b), 0)

\* One step of the binary square root of n at bit position i.
SqrtStep(n, r, i) ==
  LET c == BAdd(r, BShl(One, i))
  IN  IF BLeq(BMul(c, c), n) THEN c ELSE r

RECURSIVE SqrtRange(_, _, _, _)
SqrtRange(n, r, hi, lo) ==
  IF hi < lo THEN r
  ELSE IF hi = lo THEN SqrtStep(n, r, hi)
  ELSE LET mid == (hi + lo + 1) \div 2
           upper == SqrtRange(n, r, hi, mid)
       IN  IF BMul(upper, upper) = n THEN upper
           ELSE SqrtRange(n, upper, mid - 1, lo)

\* floor(sqrt(n))
BSqrt(n) == SqrtRange(n, Zero, BBitLen(n) \div 2, 0)

\* ---------------------------------------------------------------------------
\* f64: IEEE-754 binary64, non-negative values, round to nearest even.
\* A finite non-zero value is m * 2^e with 2^52 <= m < 2^53.  The exponent
\* range is not modelled: every value computed from u32/usize operands by
\* hide_data lies between 2^-40 and 2^70.
\* ---------------------------------------------------------------------------
MantBits == 52 + 1

FZero == [cls |-> "zero", m |-> Zero, e |-> 0]
FInf == [cls |-> "inf", m |-> Zero, e |-> 0]
FNaN == [cls |-> "nan", m |-> Zero, e |-> 0]
FFin(m, e) == [cls |-> "fin", m |-> m, e |-> e]

\* The f64 nearest to (n + d) * 2^e, where n > 0 is an integer, 0 <= d < 1 and
\* sticky says whether d > 0; ties go to the even mantissa.
FRound(n, e, sticky) ==
  LET len == BBitLen(n)
  IN  IF len <= MantBits
      THEN FFin(BShl(n, MantBits - len), e - (MantBits - len))
      ELSE LET sh == len - MantBits
               q == BShr(n, sh)
               r == BSub(n, BShl(q, sh))
               c == BCmp(r, BShl(One, sh - 1))
               up == c > 0 \/ (c = 0 /\ (sticky \/ q[1] % 2 = 1))
               q2 == IF up THEN BAdd(q, One) ELSE q
           IN  IF BBitLen(q2) > MantBits
               THEN FFin(BShr(q2, 1), e + sh + 1)
               ELSE FFin(q2, e + sh)

\* `x as f64` for an unsigned integer x
F64FromNat(n) == IF n = Zero THEN FZero ELSE FRound(n, 0, FALSE)

F64Mul(a, b) ==
  IF a.cls = "nan" \/ b.cls = "nan" THEN FNaN
  ELSE IF (a.cls = "zero" /\ b.cls = "inf") \/ (a.cls = "inf" /\ b.cls = "zero")
  THEN FNaN
  ELSE IF a.cls = "inf" \/ b.cls = "inf" THEN FInf
  ELSE IF a.cls = "zero" \/ b.cls = "zero" THEN FZero
  ELSE FRound(BMul(a.m, b.m), a.e + b.e, FALSE)

F64Div(a, b) ==
  IF a.cls = "nan" \/ b.cls = "nan" THEN FNaN
  ELSE IF (a.cls = "zero" /\ b.cls = "zero") \/ (a.cls = "inf" /\ b.cls = "inf")
  THEN FNaN
  ELSE IF a.cls = "inf" \/ b.cls = "zero" THEN FInf
  ELSE IF a.cls = "zero" \/ b.cls = "inf" THEN FZero
  ELSE LET dm == BDivMod(BShl(a.m, MantBits + 3), b.m)
       IN  FRound(dm.quot, a.e - b.e - (MantBits + 3), dm.rem # Zero)

F64Sqrt(a) ==
  IF a.cls # "fin" THEN a
  ELSE LET s == IF a.e % 2 = 0 THEN MantBits + 5 ELSE MantBits + 4
           n == BShl(a.m, s)
           r == BSqrt(n)
       IN  FRound(r, (a.e - s) \div 2, BMul(r, r) # n)

F64Ceil(a) ==
  IF a.cls # "fin" \/ a.e >= 0 THEN a
  ELSE LET q == BShr(a.m, -a.e)
       IN  IF BShl(q, -a.e) = a.m THEN a ELSE F64FromNat(BAdd(q, One))

\* u32::MAX
U32Max == BSub(BShl(One, 32), One)

\* `x as u32` for an f64 x: truncates, saturates, and sends NaN to 0
F64ToU32(a) ==
  IF a.cls = "nan" \/ a.cls = "zero" THEN Zero
  ELSE IF a.cls = "inf" \/ a.e >= 0 THEN U32Max
  ELSE LET n == BShr(a.m, -a.e)
       IN  IF BLt(U32Max, n) THEN U32Max ELSE n

\* ---------------------------------------------------------------------------
\* hide_data: the capacity check and the resize target (lib.rs lines 29-48)
\* ---------------------------------------------------------------------------
\* usize is 32 bits wide on the wasm32 target this crate is built for; u32
\* and usize arithmetic wraps on overflow in a release build.
UsizeBits == 32
U32Bits == 32

\* Faulty variant: the arithmetic done in a signed 32-bit integer.
WrapUsize_Signed(x) == BMod2Pow(x, UsizeBits - 1)

WrapUsize(x) == BMod2Pow(x, UsizeBits)
WrapU32(x) == BMod2Pow(x, U32Bits)

\* let overhead = 1024;
Overhead == 1024

\* Faulty variant: the overhead left out of the payload size.
PayloadSize_NoOverhead(len) == WrapUsize(len)

\* let payload_size = secret_data.len() + overhead;
PayloadSize(len) == WrapUsize(BAdd(len, BNat(Overhead)))

\* let capacity = (img.width() as usize * img.height() as usize * 3) / 8;
Capacity(w, h) == BShr(WrapUsize(BMul(WrapUsize(BMul(w, h)), BNat(3))), 3)

\* Faulty variant: `>=` in place of `>`.
NeedsResize_Inclusive(w, h, len) == BLeq(Capacity(w, h), PayloadSize(len))

\* if payload_size > capacity
NeedsResize(w, h, len) == BLt(Capacity(w, h), PayloadSize(len))

\* let required_pixels = (payload_size as f64 * 8.0) / 3.0;
RequiredPixels(payload_size) ==
  F64Div(F64Mul(F64FromNat(payload_size), F64FromNat(BNat(8))),
         F64FromNat(BNat(3)))

\* img.width() * img.height(), a u32 product
PixelCount(w, h) == WrapU32(BMul(w, h))

\* let current_pixels = (img.width() * img.height()) as f64;
CurrentPixels(w, h) == F64FromNat(PixelCount(w, h))

\* the literal 1.02: the f64 nearest to 102/100
Margin == F64Div(F64FromNat(BNat(102)), F64FromNat(BNat(100)))

\* let scale_factor = (required_pixels / current_pixels).sqrt() * 1.02;
ScaleFactor(w, h, len) ==
  F64Mul(F64Sqrt(F64Div(RequiredPixels(PayloadSize(len)), CurrentPixels(w, h))),
         Margin)

\* (side as f64 * scale_factor).ceil() as u32
Scaled(side, scale_factor) ==
  F64ToU32(F64Ceil(F64Mul(F64FromNat(side), scale_factor)))

\* let new_width = ...; let new_height = ...;
NewDims(w, h, len) ==
  LET sf == ScaleFactor(w, h, len)
  IN  [width |-> Scaled(w, sf), height |-> Scaled(h, sf)]

\* img = image::imageops::resize(&img, new_width, new_height, Lanczos3):
\* the result has the requested dimensions; resampling keeps nothing that was
\* embedded in the pixels.
Resize(image, dims) ==
  [width |-> dims.width, height |-> dims.height, payload |-> <<>>]

\* ---------------------------------------------------------------------------
\* hide_data: output format selection (lib.rs lines 65-72)
\* ---------------------------------------------------------------------------
\* Characters are Unicode code points and strings are sequences of them
\* ("webp" is <<119, 101, 98, 112>>).
\*
\* char::to_lowercase (Unicode 17.0) for the characters with a one-character
\* lowercase form other than themselves: <<first, last, step, delta>> says that
\* first, first + step, ..., last each map to themselves plus delta.
LowercaseTable ==
  { <<65, 90, 1, 32>>, <<192, 214, 1, 32>>, <<216, 222, 1, 32>>,
    <<256, 302, 2, 1>>, <<306, 310, 2, 1>>, <<313, 327, 2, 1>>,
    <<330, 374, 2, 1>>, <<376, 376, 1, -121>>, <<377, 381, 2, 1>>,
    <<385, 385, 1, 210>>, <<386, 388, 2, 1>>, <<390, 390, 1, 206>>,
    <<391, 391, 1, 1>>, <<393, 394, 1, 205>>, <<395, 395, 1, 1>>,
    <<398, 398, 1, 79>>, <<399, 399, 1, 202>>, <<400, 400, 1, 203>>,
    <<401, 401, 1, 1>>, <<403, 403, 1, 205>>, <<404, 404, 1, 207>>,
    <<406, 406, 1, 211>>, <<407, 407, 1, 209>>, <<408, 408, 1, 1>>,
    <<412, 412, 1, 211>>, <<413, 413, 1, 213>>, <<415, 415, 1, 214>>,
    <<416, 420, 2, 1>>, <<422, 422, 1, 218>>, <<423, 423, 1, 1>>,
    <<425, 425, 1, 218>>, <<428, 428, 1, 1>>, <<430, 430, 1, 218>>,
    <<431, 431, 1, 1>>, <<433, 434, 1, 217>>, <<435, 437, 2, 1>>,
    <<439, 439, 1, 219>>, <<440, 440, 1, 1>>, <<444, 444, 1, 1>>,
    <<452, 452, 1, 2>>, <<453, 453, 1, 1>>, <<455, 455, 1, 2>>,
    <<456, 456, 1, 1>>, <<458, 458, 1, 2>>, <<459, 475, 2, 1>>,
    <<478, 494, 2, 1>>, <<497, 497, 1, 2>>, <<498, 500, 2, 1>>,
    <<502, 502, 1, -97>>, <<503, 503, 1, -56>>, <<504, 542, 2, 1>>,
    <<544, 544, 1, -130>>, <<546, 562, 2, 1>>, <<570, 570, 1, 10795>>,
    <<571, 571, 1, 1>>, <<573, 573, 1, -163>>, <<574, 574, 1, 10792>>,
    <<577, 577, 1, 1>>, <<579, 579, 1, -195>>, <<580, 580, 1, 69>>,
    <<581, 581, 1, 71>>, <<582, 590, 2, 1>>, <<880, 882, 2, 1>>,
    <<886, 886, 1, 1>>, <<895, 895, 1, 116>>, <<902, 902, 1, 38>>,
    <<904, 906, 1, 37>>, <<908, 908, 1, 64>>, <<910, 911, 1, 63>>,
    <<913, 929, 1, 32>>, <<931, 939, 1, 32>>, <<975, 975, 1, 8>>,
    <<984, 1006, 2, 1>>, <<1012, 1012, 1, -60>>, <<1015, 1015, 1, 1>>,
    <<1017, 1017, 1, -7>>, <<1018, 1018, 1, 1>>, <<1021, 1023, 1, -130>>,
    <<1024, 1039, 1, 80>>, <<1040, 1071, 1, 32>>, <<1120, 1152, 2, 1>>,
    <<1162, 1214, 2, 1>>, <<1216, 1216, 1, 15>>, <<1217, 1229, 2, 1>>,
    <<1232, 1326, 2, 1>>, <<1329, 1366, 1, 48>>, <<4256, 4293, 1, 7264>>,
    <<4295, 4295, 1, 7264>>, <<4301, 4301, 1, 7264>>,
    <<5024, 5103, 1, 38864>>, <<5104, 5109, 1, 8>>, <<7305, 7305, 1, 1>>,
    <<7312, 7354, 1, -3008>>, <<7357, 7359, 1, -3008>>, <<7680, 7828, 2, 1>>,
    <<7838, 7838, 1, -7615>>, <<7840, 7934, 2, 1>>, <<7944, 7951, 1, -8>>,
    <<7960, 7965, 1, -8>>, <<7976, 7983, 1, -8>>, <<7992, 7999, 1, -8>>,
    <<8008, 8013, 1, -8>>, <<8025, 8031, 2, -8>>, <<8040, 8047, 1, -8>>,
    <<8072, 8079, 1, -8>>, <<8088, 8095, 1, -8>>, <<8104, 8111, 1, -8>>,
    <<8120, 8121, 1, -8>>, <<8122, 8123, 1, -74>>, <<8124, 8124, 1, -9>>,
    <<8136, 8139, 1, -86>>, <<8140, 8140, 1, -9>>, <<8152, 8153, 1, -8>>,
    <<8154, 8155, 1, -100>>, <<8168, 8169, 1, -8>>, <<8170, 8171, 1, -112>>,
    <<8172, 8172, 1, -7>>, <<8184, 8185, 1, -128>>, <<8186, 8187, 1, -126>>,
    <<8188, 8188, 1, -9>>, <<8486, 8486, 1, -7517>>, <<8490, 8490, 1, -8383>>,
    <<8491, 8491, 1, -8262>>, <<8498, 8498, 1, 28>>, <<8544, 8559, 1, 16>>,
    <<8579, 8579, 1, 1>>, <<9398, 9423, 1, 26>>, <<11264, 11311, 1, 48>>,
    <<11360, 11360, 1, 1>>, <<11362, 11362, 1, -10743>>,
    <<11363, 11363, 1, -3814>>, <<11364, 11364, 1, -10727>>,
    <<11367, 11371, 2, 1>>, <<11373, 11373, 1, -10780>>,
    <<11374, 11374, 1, -10749>>, <<11375, 11375, 1, -10783>>,
    <<11376, 11376, 1, -10782>>, <<11378, 11378, 1, 1>>,
    <<11381, 11381, 1, 1>>, <<11390, 11391, 1, -10815>>,
    <<11392, 11490, 2, 1>>, <<11499, 11501, 2, 1>>, <<11506, 11506, 1, 1>>,
    <<42560, 42604, 2, 1>>, <<42624, 42650, 2, 1>>, <<42786, 42798, 2, 1>>,
    <<42802, 42862, 2, 1>>, <<42873, 42875, 2, 1>>,
    <<42877, 42877, 1, -35332>>, <<42878, 42886, 2, 1>>,
    <<42891, 42891, 1, 1>>, <<42893, 42893, 1, -42280>>,
    <<42896, 42898, 2, 1>>, <<42902, 42920, 2, 1>>,
    <<42922, 42922, 1, -42308>>, <<42923, 42923, 1, -42319>>,
    <<42924, 42924, 1, -42315>>, <<42925, 42925, 1, -42305>>,
    <<42926, 42926, 1, -42308>>, <<42928, 42928, 1, -42258>>,
    <<42929, 42929, 1, -42282>>, <<42930, 42930, 1, -42261>>,
    <<42931, 42931, 1, 928>>, <<42932, 42946, 2, 1>>,
    <<42948, 42948, 1, -48>>, <<42949, 42949, 1, -42307>>,
    <<42950, 42950, 1, -35384>>, <<42951, 42953, 2, 1>>,
    <<42955, 42955, 1, -42343>>, <<42956, 42970, 2, 1>>,
    <<42972, 42972, 1, -42561>>, <<42997, 42997, 1, 1>>,
    <<65313, 65338, 1, 32>>, <<66560, 66599, 1, 40>>, <<66736, 66771, 1, 40>>,
    <<66928, 66938, 1, 39>>, <<66940, 66954, 1, 39>>, <<66956, 66962, 1, 39>>,
    <<66964, 66965, 1, 39>>, <<68736, 68786, 1, 64>>, <<68944, 68965, 1, 32>>,
    <<71840, 71871, 1, 32>>, <<93760, 93791, 1, 32>>, <<93856, 93880, 1, 27>>,
    <<125184, 125217, 1, 34>> }

\* The Unicode properties Case_Ignorable and Cased, as ranges <<first, last>>
CaseIgnorableTable ==
  { <<39, 39>>, <<46, 46>>, <<58, 58>>, <<94, 94>>, <<96, 96>>, <<168, 168>>,
    <<173, 173>>, <<175, 175>>, <<180, 180>>, <<183, 184>>, <<688, 879>>,
    <<884, 885>>, <<890, 890>>, <<900, 901>>, <<903, 903>>, <<1155, 1161>>,
    <<1369, 1369>>, <<1375, 1375>>, <<1425, 1469>>, <<1471, 1471>>,
    <<1473, 1474>>, <<1476, 1477>>, <<1479, 1479>>, <<1524, 1524>>,
    <<1536, 1541>>, <<1552, 1562>>, <<1564, 1564>>, <<1600, 1600>>,
    <<1611, 1631>>, <<1648, 1648>>, <<1750, 1757>>, <<1759, 1768>>,
    <<1770, 1773>>, <<1807, 1807>>, <<1809, 1809>>, <<1840, 1866>>,
    <<1958, 1968>>, <<2027, 2037>>, <<2042, 2042>>, <<2045, 2045>>,
    <<2070, 2093>>, <<2137, 2139>>, <<2184, 2184>>, <<2192, 2193>>,
    <<2199, 2207>>, <<2249, 2306>>, <<2362, 2362>>, <<2364, 2364>>,
    <<2369, 2376>>, <<2381, 2381>>, <<2385, 2391>>, <<2402, 2403>>,
    <<2417, 2417>>, <<2433, 2433>>, <<2492, 2492>>, <<2497, 2500>>,
    <<2509, 2509>>, <<2530, 2531>>, <<2558, 2558>>, <<2561, 2562>>,
    <<2620, 2620>>, <<2625, 2626>>, <<2631, 2632>>, <<2635, 2637>>,
    <<2641, 2641>>, <<2672, 2673>>, <<2677, 2677>>, <<2689, 2690>>,
    <<2748, 2748>>, <<2753, 2757>>, <<2759, 2760>>, <<2765, 2765>>,
    <<2786, 2787>>, <<2810, 2815>>, <<2817, 2817>>, <<2876, 2876>>,
    <<2879, 2879>>, <<2881, 2884>>, <<2893, 2893>>, <<2901, 2902>>,
    <<2914, 2915>>, <<2946, 2946>>, <<3008, 3008>>, <<3021, 3021>>,
    <<3072, 3072>>, <<3076, 3076>>, <<3132, 3132>>, <<3134, 3136>>,
    <<3142, 3144>>, <<3146, 3149>>, <<3157, 3158>>, <<3170, 3171>>,
    <<3201, 3201>>, <<3260, 3260>>, <<3263, 3263>>, <<3270, 3270>>,
    <<3276, 3277>>, <<3298, 3299>>, <<3328, 3329>>, <<3387, 3388>>,
    <<3393, 3396>>, <<3405, 3405>>, <<3426, 3427>>, <<3457, 3457>>,
    <<3530, 3530>>, <<3538, 3540>>, <<3542, 3542>>, <<3633, 3633>>,
    <<3636, 3642>>, <<3654, 3662>>, <<3761, 3761>>, <<3764, 3772>>,
    <<3782, 3782>>, <<3784, 3790>>, <<3864, 3865>>, <<3893, 3893>>,
    <<3895, 3895>>, <<3897, 3897>>, <<3953, 3966>>, <<3968, 3972>>,
    <<3974, 3975>>, <<3981, 3991>>, <<3993, 4028>>, <<4038, 4038>>,
    <<4141, 4144>>, <<4146, 4151>>, <<4153, 4154>>, <<4157, 4158>>,
    <<4184, 4185>>, <<4190, 4192>>, <<4209, 4212>>, <<4226, 4226>>,
    <<4229, 4230>>, <<4237, 4237>>, <<4253, 4253>>, <<4348, 4348>>,
    <<4957, 4959>>, <<5906, 5908>>, <<5938, 5939>>, <<5970, 5971>>,
    <<6002, 6003>>, <<6068, 6069>>, <<6071, 6077>>, <<6086, 6086>>,
    <<6089, 6099>>, <<6103, 6103>>, <<6109, 6109>>, <<6155, 6159>>,
    <<6211, 6211>>, <<6277, 6278>>, <<6313, 6313>>, <<6432, 6434>>,
    <<6439, 6440>>, <<6450, 6450>>, <<6457, 6459>>, <<6679, 6680>>,
    <<6683, 6683>>, <<6742, 6742>>, <<6744, 6750>>, <<6752, 6752>>,
    <<6754, 6754>>, <<6757, 6764>>, <<6771, 6780>>, <<6783, 6783>>,
    <<6823, 6823>>, <<6832, 6877>>, <<6880, 6891>>, <<6912, 6915>>,
    <<6964, 6964>>, <<6966, 6970>>, <<6972, 6972>>, <<6978, 6978>>,
    <<7019, 7027>>, <<7040, 7041>>, <<7074, 7077>>, <<7080, 7081>>,
    <<7083, 7085>>, <<7142, 7142>>, <<7144, 7145>>, <<7149, 7149>>,
    <<7151, 7153>>, <<7212, 7219>>, <<7222, 7223>>, <<7288, 7293>>,
    <<7376, 7378>>, <<7380, 7392>>, <<7394, 7400>>, <<7405, 7405>>,
    <<7412, 7412>>, <<7416, 7417>>, <<7468, 7530>>, <<7544, 7544>>,
    <<7579, 7679>>, <<8125, 8125>>, <<8127, 8129>>, <<8141, 8143>>,
    <<8157, 8159>>, <<8173, 8175>>, <<8189, 8190>>, <<8203, 8207>>,
    <<8216, 8217>>, <<8228, 8228>>, <<8231, 8231>>, <<8234, 8238>>,
    <<8288, 8292>>, <<8294, 8303>>, <<8305, 8305>>, <<8319, 8319>>,
    <<8336, 8348>>, <<8400, 8432>>, <<11388, 11389>>, <<11503, 11505>>,
    <<11631, 11631>>, <<11647, 11647>>, <<11744, 11775>>, <<11823, 11823>>,
    <<12293, 12293>>, <<12330, 12333>>, <<12337, 12341>>, <<12347, 12347>>,
    <<12441, 12446>>, <<12540, 12542>>, <<40981, 40981>>, <<42232, 42237>>,
    <<42508, 42508>>, <<42607, 42610>>, <<42612, 42621>>, <<42623, 42623>>,
    <<42652, 42655>>, <<42736, 42737>>, <<42752, 42785>>, <<42864, 42864>>,
    <<42888, 42890>>, <<42993, 42996>>, <<43000, 43001>>, <<43010, 43010>>,
    <<43014, 43014>>, <<43019, 43019>>, <<43045, 43046>>, <<43052, 43052>>,
    <<43204, 43205>>, <<43232, 43249>>, <<43263, 43263>>, <<43302, 43309>>,
    <<43335, 43345>>, <<43392, 43394>>, <<43443, 43443>>, <<43446, 43449>>,
    <<43452, 43453>>, <<43471, 43471>>, <<43493, 43494>>, <<43561, 43566>>,
    <<43569, 43570>>, <<43573, 43574>>, <<43587, 43587>>, <<43596, 43596>>,
    <<43632, 43632>>, <<43644, 43644>>, <<43696, 43696>>, <<43698, 43700>>,
    <<43703, 43704>>, <<43710, 43711>>, <<43713, 43713>>, <<43741, 43741>>,
    <<43756, 43757>>, <<43763, 43764>>, <<43766, 43766>>, <<43867, 43871>>,
    <<43881, 43883>>, <<44005, 44005>>, <<44008, 44008>>, <<44013, 44013>>,
    <<64286, 64286>>, <<64434, 64450>>, <<65024, 65039>>, <<65043, 65043>>,
    <<65056, 65071>>, <<65106, 65106>>, <<65109, 65109>>, <<65279, 65279>>,
    <<65287, 65287>>, <<65294, 65294>>, <<65306, 65306>>, <<65342, 65342>>,
    <<65344, 65344>>, <<65392, 65392>>, <<65438, 65439>>, <<65507, 65507>>,
    <<65529, 65531>>, <<66045, 66045>>, <<66272, 66272>>, <<66422, 66426>>,
    <<67456, 67461>>, <<67463, 67504>>, <<67506, 67514>>, <<68097, 68099>>,
    <<68101, 68102>>, <<68108, 68111>>, <<68152, 68154>>, <<68159, 68159>>,
    <<68325, 68326>>, <<68900, 68903>>, <<68942, 68942>>, <<68969, 68973>>,
    <<68975, 68975>>, <<69291, 69292>>, <<69317, 69317>>, <<69370, 69375>>,
    <<69446, 69456>>, <<69506, 69509>>, <<69633, 69633>>, <<69688, 69702>>,
    <<69744, 69744>>, <<69747, 69748>>, <<69759, 69761>>, <<69811, 69814>>,
    <<69817, 69818>>, <<69821, 69821>>, <<69826, 69826>>, <<69837, 69837>>,
    <<69888, 69890>>, <<69927, 69931>>, <<69933, 69940>>, <<70003, 70003>>,
    <<70016, 70017>>, <<70070, 70078>>, <<70089, 70092>>, <<70095, 70095>>,
    <<70191, 70193>>, <<70196, 70196>>, <<70198, 70199>>, <<70206, 70206>>,
    <<70209, 70209>>, <<70367, 70367>>, <<70371, 70378>>, <<70400, 70401>>,
    <<70459, 70460>>, <<70464, 70464>>, <<70502, 70508>>, <<70512, 70516>>,
    <<70587, 70592>>, <<70606, 70606>>, <<70608, 70608>>, <<70610, 70610>>,
    <<70625, 70626>>, <<70712, 70719>>, <<70722, 70724>>, <<70726, 70726>>,
    <<70750, 70750>>, <<70835, 70840>>, <<70842, 70842>>, <<70847, 70848>>,
    <<70850, 70851>>, <<71090, 71093>>, <<71100, 71101>>, <<71103, 71104>>,
    <<71132, 71133>>, <<71219, 71226>>, <<71229, 71229>>, <<71231, 71232>>,
    <<71339, 71339>>, <<71341, 71341>>, <<71344, 71349>>, <<71351, 71351>>,
    <<71453, 71453>>, <<71455, 71455>>, <<71458, 71461>>, <<71463, 71467>>,
    <<71727, 71735>>, <<71737, 71738>>, <<71995, 71996>>, <<71998, 71998>>,
    <<72003, 72003>>, <<72148, 72151>>, <<72154, 72155>>, <<72160, 72160>>,
    <<72193, 72202>>, <<72243, 72248>>, <<72251, 72254>>, <<72263, 72263>>,
    <<72273, 72278>>, <<72281, 72283>>, <<72330, 72342>>, <<72344, 72345>>,
    <<72544, 72544>>, <<72546, 72548>>, <<72550, 72550>>, <<72752, 72758>>,
    <<72760, 72765>>, <<72767, 72767>>, <<72850, 72871>>, <<72874, 72880>>,
    <<72882, 72883>>, <<72885, 72886>>, <<73009, 73014>>, <<73018, 73018>>,
    <<73020, 73021>>, <<73023, 73029>>, <<73031, 73031>>, <<73104, 73105>>,
    <<73109, 73109>>, <<73111, 73111>>, <<73177, 73177>>, <<73459, 73460>>,
    <<73472, 73473>>, <<73526, 73530>>, <<73536, 73536>>, <<73538, 73538>>,
    <<73562, 73562>>, <<78896, 78912>>, <<78919, 78933>>, <<90398, 90409>>,
    <<90413, 90415>>, <<92912, 92916>>, <<92976, 92982>>, <<92992, 92995>>,
    <<93504, 93506>>, <<93547, 93548>>, <<94031, 94031>>, <<94095, 94111>>,
    <<94176, 94177>>, <<94179, 94180>>, <<94194, 94195>>, <<110576, 110579>>,
    <<110581, 110587>>, <<110589, 110590>>, <<113821, 113822>>,
    <<113824, 113827>>, <<118528, 118573>>, <<118576, 118598>>,
    <<119143, 119145>>, <<119155, 119170>>, <<119173, 119179>>,
    <<119210, 119213>>, <<119362, 119364>>, <<121344, 121398>>,
    <<121403, 121452>>, <<121461, 121461>>, <<121476, 121476>>,
    <<121499, 121503>>, <<121505, 121519>>, <<122880, 122886>>,
    <<122888, 122904>>, <<122907, 122913>>, <<122915, 122916>>,
    <<122918, 122922>>, <<122928, 122989>>, <<123023, 123023>>,
    <<123184, 123197>>, <<123566, 123566>>, <<123628, 123631>>,
    <<124139, 124143>>, <<124398, 124399>>, <<124643, 124643>>,
    <<124646, 124646>>, <<124654, 124655>>, <<124661, 124661>>,
    <<124671, 124671>>, <<125136, 125142>>, <<125252, 125259>>,
    <<127995, 127999>>, <<917505, 917505>>, <<917536, 917631>>,
    <<917760, 917999>> }

CasedTable ==
  { <<65, 90>>, <<97, 122>>, <<170, 170>>, <<181, 181>>, <<186, 186>>,
    <<192, 214>>, <<216, 246>>, <<248, 442>>, <<444, 447>>, <<452, 659>>,
    <<662, 696>>, <<704, 705>>, <<736, 740>>, <<837, 837>>, <<880, 883>>,
    <<886, 887>>, <<890, 893>>, <<895, 895>>, <<902, 902>>, <<904, 906>>,
    <<908, 908>>, <<910, 929>>, <<931, 1013>>, <<1015, 1153>>, <<1162, 1327>>,
    <<1329, 1366>>, <<1376, 1416>>, <<4256, 4293>>, <<4295, 4295>>,
    <<4301, 4301>>, <<4304, 4346>>, <<4348, 4351>>, <<5024, 5109>>,
    <<5112, 5117>>, <<7296, 7306>>, <<7312, 7354>>, <<7357, 7359>>,
    <<7424, 7615>>, <<7680, 7957>>, <<7960, 7965>>, <<7968, 8005>>,
    <<8008, 8013>>, <<8016, 8023>>, <<8025, 8025>>, <<8027, 8027>>,
    <<8029, 8029>>, <<8031, 8061>>, <<8064, 8116>>, <<8118, 8124>>,
    <<8126, 8126>>, <<8130, 8132>>, <<8134, 8140>>, <<8144, 8147>>,
    <<8150, 8155>>, <<8160, 8172>>, <<8178, 8180>>, <<8182, 8188>>,
    <<8305, 8305>>, <<8319, 8319>>, <<8336, 8348>>, <<8450, 8450>>,
    <<8455, 8455>>, <<8458, 8467>>, <<8469, 8469>>, <<8473, 8477>>,
    <<8484, 8484>>, <<8486, 8486>>, <<8488, 8488>>, <<8490, 8493>>,
    <<8495, 8500>>, <<8505, 8505>>, <<8508, 8511>>, <<8517, 8521>>,
    <<8526, 8526>>, <<8544, 8575>>, <<8579, 8580>>, <<9398, 9449>>,
    <<11264, 11492>>, <<11499, 11502>>, <<11506, 11507>>, <<11520, 11557>>,
    <<11559, 11559>>, <<11565, 11565>>, <<42560, 42605>>, <<42624, 42653>>,
    <<42786, 42887>>, <<42891, 42894>>, <<42896, 42972>>, <<42993, 42998>>,
    <<43000, 43002>>, <<43824, 43866>>, <<43868, 43881>>, <<43888, 43967>>,
    <<64256, 64262>>, <<64275, 64279>>, <<65313, 65338>>, <<65345, 65370>>,
    <<66560, 66639>>, <<66736, 66771>>, <<66776, 66811>>, <<66928, 66938>>,
    <<66940, 66954>>, <<66956, 66962>>, <<66964, 66965>>, <<66967, 66977>>,
    <<66979, 66993>>, <<66995, 67001>>, <<67003, 67004>>, <<67456, 67456>>,
    <<67459, 67461>>, <<67463, 67504>>, <<67506, 67514>>, <<68736, 68786>>,
    <<68800, 68850>>, <<68944, 68965>>, <<68976, 68997>>, <<71840, 71903>>,
    <<93760, 93823>>, <<93856, 93880>>, <<93883, 93907>>, <<119808, 119892>>,
    <<119894, 119964>>, <<119966, 119967>>, <<119970, 119970>>,
    <<119973, 119974>>, <<119977, 119980>>, <<119982, 119993>>,
    <<119995, 119995>>, <<119997, 120003>>, <<120005, 120069>>,
    <<120071, 120074>>, <<120077, 120084>>, <<120086, 120092>>,
    <<120094, 120121>>, <<120123, 120126>>, <<120128, 120132>>,
    <<120134, 120134>>, <<120138, 120144>>, <<120146, 120485>>,
    <<120488, 120512>>, <<120514, 120538>>, <<120540, 120570>>,
    <<120572, 120596>>, <<120598, 120628>>, <<120630, 120654>>,
    <<120656, 120686>>, <<120688, 120712>>, <<120714, 120744>>,
    <<120746, 120770>>, <<120772, 120779>>, <<122624, 122633>>,
    <<122635, 122654>>, <<122661, 122666>>, <<122928, 122989>>,
    <<125184, 125251>>, <<127280, 127305>>, <<127312, 127337>>,
    <<127344, 127369>> }

InRule(c, r) == r[1] <= c /\ c <= r[2] /\ (c - r[1]) % r[3] = 0

\* char::to_lowercase; U+0130 is the one character with a two-character
\* lowercase form (i followed by U+0307)
ToLowerChar(c) ==
  IF c = 304 THEN <<105, 775>>
  ELSE IF \E r \in LowercaseTable : InRule(c, r)
  THEN <<c + (CHOOSE r \in LowercaseTable : InRule(c, r))[4]>>
  ELSE <<c>>

Case_Ignorable(c) == \E r \in CaseIgnorableTable : r[1] <= c /\ c <= r[2]
Cased(c) == \E r \in CasedTable : r[1] <= c /\ c <= r[2]

\* iter.skip_while(Case_Ignorable).next() is a cased character
RECURSIVE CaseIgnorableThenCased(_)
CaseIgnorableThenCased(chars) ==
  IF chars = <<>> THEN FALSE
  ELSE IF Case_Ignorable(Head(chars)) THEN CaseIgnorableThenCased(Tail(chars))
  ELSE Cased(Head(chars))

Reverse(chars) == [i \in 1..Len(chars) |-> chars[Len(chars) + 1 - i]]

\* str::to_lowercase maps capital sigma (U+03A3) at the end of a word to the
\* final sigma U+03C2 and elsewhere to U+03C3
MapUppercaseSigma(from, i) ==
  IF /\ CaseIgnorableThenCased(Reverse(SubSeq(from, 1, i - 1)))
     /\ ~CaseIgnorableThenCased(SubSeq(from, i + 1, Len(from)))
  THEN 962 ELSE 963

RECURSIVE LowerFrom(_, _)
LowerFrom(str, i) ==
  IF i > Len(str) THEN <<>>
  ELSE (IF str[i] = 931 THEN <<MapUppercaseSigma(str, i)>> ELSE ToLowerChar(str[i]))
       \o LowerFrom(str, i + 1)

\* fmt_str.to_lowercase()
ToLowercase(str) == LowerFrom(str, 1)

\* The strings the program matches against
Webp == <<119, 101, 98, 112>>
Avif == <<97, 118, 105, 102>>

\* Faulty variant: the format string matched without lowercasing.
MatchFormat_CaseSensitive(fmt_str) ==
  IF fmt_str = Webp THEN "WebP" ELSE IF fmt_str = Avif THEN "Avif" ELSE "Png"

\* match fmt_str.to_lowercase().as_str() { "webp" => WebP, "avif" => Avif, _ => Png }
MatchFormat(fmt_str) ==
  LET lower == ToLowercase(fmt_str)
  IN  IF lower = Webp THEN "WebP" ELSE IF lower = Avif THEN "Avif" ELSE "Png"

\* ---------------------------------------------------------------------------
\* The collaborators: image codec and steganography engine
\* ---------------------------------------------------------------------------
\* A byte string handed to or produced by the program is described by what the
\* codec makes of it: whether image::load_from_memory decodes it (and, if not,
\* the codec's diagnostic), the decoded dimensions, the encoding, and the
\* engine payload its pixels carry (<<>> for none).
Bytes(decodable, diag, w, h, format, payload) ==
  [decodable |-> decodable, diag |-> diag, width |-> w, height |-> h,
   format |-> format, payload |-> payload]

NoBytes == Bytes(FALSE, "", Zero, Zero, "", <<>>)

\* image::load_from_memory(carrier_data)?.to_rgba8(), on success
Decoded(bytes) ==
  [width |-> bytes.width, height |-> bytes.height, payload |-> bytes.payload]

\* SteganoEncoder::default(): no password, PNG output, no media, no files
EncoderDefault ==
  [password |-> <<>>, format |-> "Png", media |-> <<>>, files |-> <<>>]

\* if let Some(pwd) = password { encoder.with_encryption(pwd); }
WithEncryption(enc, pwd) ==
  IF pwd = <<>> THEN enc ELSE [enc EXCEPT !.password = pwd]

\* if let Some(fmt_str) = output_format_str { encoder.with_output_format(fmt); }
WithOutputFormat(enc, fmt_opt) ==
  IF fmt_opt = <<>> THEN enc ELSE [enc EXCEPT !.format = MatchFormat(fmt_opt[1])]

\* encoder.use_media_from_media(media)
UseMediaFromMedia(enc, media) == [enc EXCEPT !.media = <<media>>]

\* encoder.add_file_from_memory(secret_name, secret_data), on success
AddFileFromMemory(enc, name, data) ==
  [enc EXCEPT !.files = Append(@, [name |-> name, data |-> data])]

\* floor(w * h * 3 / 8) and len + 1024 as natural numbers
BytesOfPixels(w, h) == BShr(BMul(BMul(w, h), BNat(3)), 3)
WithOverhead(len) == BAdd(len, BNat(Overhead))

RECURSIVE TotalLen(_)
TotalLen(files) ==
  IF files = <<>> THEN Zero ELSE BAdd(Head(files).data.len, TotalLen(Tail(files)))

\* The engine stores 3 bits per pixel and frames the files with at most
\* 1024 bytes: it can embed what fits.
EngineFits(enc) ==
  /\ enc.media # <<>>
  /\ BLeq(WithOverhead(TotalLen(enc.files)),
          BytesOfPixels(enc.media[1].width, enc.media[1].height))

\* encoder.hide_to_vec(), on success: the media encoded in the configured
\* format.  Whether image::load_from_memory reads these bytes back (readable,
\* and if not with which diagnostic) and whether the pixels read back still
\* carry the files under the configured password (intact) is the affair of
\* the engine and of the codec of that format.
HideToVec(enc, readable, diag, intact) ==
  Bytes(readable, IF readable THEN "" ELSE diag,
        enc.media[1].width, enc.media[1].height, enc.format,
        IF readable /\ intact
        THEN <<[password |-> enc.password, files |-> enc.files]>>
        ELSE <<>>)

\* unveil::prepare() and using_password(Some(pwd))
UnveilPrepare == [password |-> <<>>, media |-> <<>>]
UsingPassword(ses, pwd) ==
  IF pwd = <<>> THEN ses ELSE [ses EXCEPT !.password = pwd]

\* .from_media(media)
FromMedia(ses, media) == [ses EXCEPT !.media = <<media>>]

\* execute_to_memory(), on success: the (name, data) pairs the engine finds.
\* The engine is opaque: it returns no file, or the files the media carries.
Extractable(ses) ==
  {<<>>} \cup {ses.media[1].payload[i].files : i \in 1..Len(ses.media[1].payload)}

\* results.into_iter().map(|(name, data)| UnveiledFile { name, data }).collect()
Collect(files) ==
  [i \in 1..Len(files) |-> [name |-> files[i].name, data |-> files[i].data]]

\* ---------------------------------------------------------------------------
\* The failure values (JsValue strings): the format string and its arguments
\* ---------------------------------------------------------------------------
MsgLoad == "Failed to load image: {}"
MsgTooSmall ==
  "Image too small! Capacity: {} bytes, Payload: {} bytes. Enable 'Autoscale' or choose a larger image."
MsgAddFile == "Failed to add memory file: {}"
MsgHide == "Failed to hide data: {}"
\* Faulty variant: the unveil path reports the generic decode failure.
MsgJxl_Generic == "Failed to load image: {}"
MsgJxl ==
  "JXL file detected but decoding implementation is pending (jxl-oxide integration issue)."
MsgUnveil == "Failed to unveil: {}"

NoResult ==
  [status |-> "none", text |-> "", diag |-> "", capacity |-> Zero,
   required |-> Zero, bytes |-> <<>>, files |-> <<>>]
Err(text, diag) == [NoResult EXCEPT !.status = "err", !.text = text, !.diag = diag]
ErrTooSmall(cap, size) ==
  [NoResult EXCEPT !.status = "err", !.text = MsgTooSmall,
                   !.capacity = cap, !.required = size]
OkBytes(bytes) == [NoResult EXCEPT !.status = "ok", !.bytes = <<bytes>>]
OkFiles(files) == [NoResult EXCEPT !.status = "ok", !.files = files]

\* ---------------------------------------------------------------------------
\* The inputs explored
\* ---------------------------------------------------------------------------
MaxSide == 1
MaxSlack == 1

\* isize::MAX on wasm32: the largest allocation, and the largest slice length
IsizeMax == BSub(BShl(One, UsizeBits - 1), One)

\* to_rgba8() holds the carrier as a Vec<u8> of width * height * 4 bytes.
Allocatable(w, h) == BLeq(BMul(BMul(w, h), BNat(4)), IsizeMax)

Sides ==
  {BNat(i) : i \in 0..MaxSide}
    \cup {BNat(100), BNat(23170), BNat(65536), BNat(536870911), U32Max}

Dims == {d \in Sides \X Sides : Allocatable(d[1], d[2])}

CodecDiags == {"The image format could not be determined", "unexpected end of file"}
EngineDiags == {"engine failure A", "engine failure B"}

\* carrier_data for hide_data: bytes no codec decodes, and images of every
\* explored size
HideCarriers ==
  {Bytes(FALSE, d, Zero, Zero, "", <<>>) : d \in CodecDiags}
    \cup {Bytes(TRUE, "", d[1], d[2], "Png", <<>>) : d \in Dims}

\* secret_data.len(): empty, the specification's two examples, the longest
\* slice, and the lengths around the carrier's capacity
PayloadLens(c) ==
  {Zero, BNat(2000), BNat(3000), IsizeMax}
    \cup {BSub(BAdd(Capacity(c.width, c.height), BNat(d)), BNat(Overhead + MaxSlack)) :
            d \in {x \in 0..(2 * MaxSlack) :
                     BLeq(BNat(Overhead + MaxSlack), Capacity(c.width, c.height))}}

Tags == {"P", "Q"}
Names == {"a.txt", "b.bin"}
Passwords == {<<>>, <<"pw1">>}
UnveilPasswords == {<<>>, <<"pw1">>, <<"pw2">>}

FormatStrings ==
  { <<>>,
    <<Webp>>, <<<<87, 69, 66, 80>>>>, <<<<87, 101, 98, 80>>>>,
    <<Avif>>, <<<<65, 86, 73, 70>>>>, <<<<97, 86, 105, 70>>>>,
    <<<<112, 110, 103>>>>, <<<<98, 109, 112>>>>, <<<<>>>>,
    <<<<119, 101, 98, 112, 32>>>>,
    <<<<97, 118, 304, 102>>>>, <<<<87, 69, 66, 8490>>>>,
    <<<<201, 931>>>>, <<<<931, 97>>>> }

\* carrier_data for an unveil_data call of its own: undecodable bytes and
\* plain images
UnveilCarriers ==
  {Bytes(FALSE, d, Zero, Zero, "", <<>>) : d \in CodecDiags}
    \cup {Bytes(TRUE, "", BNat(100), BNat(100), "Png", <<>>)}

\* ---------------------------------------------------------------------------
\* State
\* ---------------------------------------------------------------------------
\* pc is the position in hide_data (h_*) or unveil_data (u_*).  An argument is
\* bound by the step that first reads it: carrier_data, secret_data and
\* should_resize by the call, password and output_format_str by the encoder
\* configuration, secret_name by the registration.
VARIABLES pc, carrier_data, secret_name, secret_data, password, should_resize,
          output_format_str, img, payload_size, capacity, encoder, result,
          u_carrier, u_password, session, unveiled, trace

vars == <<pc, carrier_data, secret_name, secret_data, password, should_resize,
          output_format_str, img, payload_size, capacity, encoder, result,
          u_carrier, u_password, session, unveiled, trace>>

hideArgs == <<carrier_data, secret_name, secret_data, password, should_resize,
              output_format_str>>
hideLocals == <<img, payload_size, capacity, encoder>>
unveilVars == <<u_carrier, u_password, session, unveiled>>

Init ==
  /\ pc = "idle"
  /\ carrier_data = NoBytes
  /\ secret_name = ""
  /\ secret_data = [len |-> Zero, tag |-> ""]
  /\ password = <<>>
  /\ should_resize = FALSE
  /\ output_format_str = <<>>
  /\ img = <<>>
  /\ payload_size = <<>>
  /\ capacity = <<>>
  /\ encoder = <<>>
  /\ result = NoResult
  /\ u_carrier = NoBytes
  /\ u_password = <<>>
  /\ session = <<>>
  /\ unveiled = NoResult
  /\ trace = <<>>

\* ---------------------------------------------------------------------------
\* hide_data
\* ---------------------------------------------------------------------------
HideCall ==
  /\ pc = "idle"
  /\ \E c \in HideCarriers, r \in BOOLEAN, t \in Tags :
       \E len \in PayloadLens(c) :
         /\ carrier_data' = c
         /\ secret_data' = [len |-> len, tag |-> t]
         /\ should_resize' = r
  /\ pc' = "h_load"
  /\ trace' = <<>>
  /\ UNCHANGED <<secret_name, password, output_format_str, hideLocals, result,
                 unveilVars>>

\* lines 22-24, the codec decodes the carrier
LoadOk ==
  /\ pc = "h_load"
  /\ carrier_data.decodable
  /\ img' = <<Decoded(carrier_data)>>
  /\ pc' = "h_capacity"
  /\ trace' = Append(trace, "load")
  /\ UNCHANGED <<hideArgs, payload_size, capacity, encoder, result, unveilVars>>

\* lines 22-23, the codec fails: map_err and `?`
LoadErr ==
  /\ pc = "h_load"
  /\ ~carrier_data.decodable
  /\ result' = Err(MsgLoad, carrier_data.diag)
  /\ pc' = "h_done"
  /\ trace' = Append(trace, "load")
  /\ UNCHANGED <<hideArgs, hideLocals, unveilVars>>

\* lines 29-39
CapacityCheck ==
  /\ pc = "h_capacity"
  /\ payload_size' = <<PayloadSize(secret_data.len)>>
  /\ capacity' = <<Capacity(img[1].width, img[1].height)>>
  /\ IF NeedsResize(img[1].width, img[1].height, secret_data.len)
     THEN IF ~should_resize
          THEN /\ result' = ErrTooSmall(Capacity(img[1].width, img[1].height),
                                        PayloadSize(secret_data.len))
               /\ pc' = "h_done"
          ELSE /\ pc' = "h_resize"
               /\ UNCHANGED result
     ELSE /\ pc' = "h_configure"
          /\ UNCHANGED result
  /\ trace' = Append(trace, "capacity")
  /\ UNCHANGED <<hideArgs, img, encoder, unveilVars>>

\* lines 41-55.  resize() returns the image in a new RGBA8 buffer of
\* new_width * new_height * 4 bytes, which exists only if no larger than
\* isize::MAX.
ResizeImage ==
  /\ pc = "h_resize"
  /\ LET dims == NewDims(img[1].width, img[1].height, secret_data.len)
     IN  /\ Allocatable(dims.width, dims.height)
         /\ img' = <<Resize(img[1], dims)>>
  /\ pc' = "h_configure"
  /\ trace' = Append(trace, "resize")
  /\ UNCHANGED <<hideArgs, payload_size, capacity, encoder, result, unveilVars>>

\* lines 50-55 when that buffer cannot exist: the allocation panics and the
\* call traps; hide_data returns neither Ok nor Err.
ResizeTrap ==
  /\ pc = "h_resize"
  /\ LET dims == NewDims(img[1].width, img[1].height, secret_data.len)
     IN  ~Allocatable(dims.width, dims.height)
  /\ pc' = "h_trapped"
  /\ trace' = Append(trace, "resize")
  /\ UNCHANGED <<hideArgs, img, payload_size, capacity, encoder, result, unveilVars>>

\* lines 60-72: the encoder with the password and the output format
Configure ==
  /\ pc = "h_configure"
  /\ \E pwd \in Passwords, fmt \in FormatStrings :
       /\ password' = pwd
       /\ output_format_str' = fmt
       /\ encoder' = <<WithOutputFormat(WithEncryption(EncoderDefault, pwd), fmt)>>
  /\ pc' = "h_use_media"
  /\ trace' = Append(trace, "configure")
  /\ UNCHANGED <<carrier_data, secret_name, secret_data, should_resize, img,
                 payload_size, capacity, result, unveilVars>>

\* lines 58 and 74: the image is handed to the engine
UseMedia ==
  /\ pc = "h_use_media"
  /\ encoder' = <<UseMediaFromMedia(encoder[1], img[1])>>
  /\ pc' = "h_add_file"
  /\ trace' = Append(trace, "use_media")
  /\ UNCHANGED <<hideArgs, img, payload_size, capacity, result, unveilVars>>

\* lines 75-77, the engine registers the file
AddFileOk ==
  /\ pc = "h_add_file"
  /\ \E name \in Names :
       /\ secret_name' = name
       /\ encoder' = <<AddFileFromMemory(encoder[1], name, secret_data)>>
  /\ pc' = "h_hide_to_vec"
  /\ trace' = Append(trace, "add_file")
  /\ UNCHANGED <<carrier_data, secret_data, password, should_resize,
                 output_format_str, img, payload_size, capacity, result, unveilVars>>

\* lines 75-77, the engine reports a failure: map_err and `?`
AddFileErr ==
  /\ pc = "h_add_file"
  /\ \E name \in Names, d \in EngineDiags :
       /\ secret_name' = name
       /\ result' = Err(MsgAddFile, d)
  /\ pc' = "h_done"
  /\ trace' = Append(trace, "add_file")
  /\ UNCHANGED <<carrier_data, secret_data, password, should_resize,
                 output_format_str, hideLocals, unveilVars>>

\* lines 79-83, the engine embeds and encodes
HideToVecOk ==
  /\ pc = "h_hide_to_vec"
  /\ EngineFits(encoder[1])
  /\ \E readable \in BOOLEAN, d \in CodecDiags, intact \in BOOLEAN :
       result' = OkBytes(HideToVec(encoder[1], readable, d, intact))
  /\ pc' = "h_done"
  /\ trace' = Append(trace, "hide_to_vec")
  /\ UNCHANGED <<hideArgs, hideLocals, unveilVars>>

\* lines 79-81, the engine reports a failure: map_err and `?`
HideToVecErr ==
  /\ pc = "h_hide_to_vec"
  /\ \E d \in EngineDiags : result' = Err(MsgHide, d)
  /\ pc' = "h_done"
  /\ trace' = Append(trace, "hide_to_vec")
  /\ UNCHANGED <<hideArgs, hideLocals, unveilVars>>

\* hide_data has returned, or has trapped and control is back with the
\* caller; everything of the call is dropped
HideReturn ==
  /\ pc \in {"h_done", "h_trapped"}
  /\ pc' = "idle"
  /\ carrier_data' = NoBytes
  /\ secret_name' = ""
  /\ secret_data' = [len |-> Zero, tag |-> ""]
  /\ password' = <<>>
  /\ should_resize' = FALSE
  /\ output_format_str' = <<>>
  /\ img' = <<>>
  /\ payload_size' = <<>>
  /\ capacity' = <<>>
  /\ encoder' = <<>>
  /\ result' = NoResult
  /\ trace' = <<>>
  /\ UNCHANGED unveilVars

\* ---------------------------------------------------------------------------
\* unveil_data
\* ---------------------------------------------------------------------------
\* a call on bytes of the caller's own
UnveilCall ==
  /\ pc = "idle"
  /\ \E c \in UnveilCarriers : u_carrier' = c
  /\ pc' = "u_load"
  /\ trace' = <<>>
  /\ UNCHANGED <<hideArgs, hideLocals, result, u_password, session, unveiled>>

\* a call on the bytes hide_data has just returned
UnveilOutput ==
  /\ pc = "h_done"
  /\ result.status = "ok"
  /\ u_carrier' = result.bytes[1]
  /\ pc' = "u_load"
  /\ trace' = <<>>
  /\ UNCHANGED <<hideArgs, hideLocals, result, u_password, session, unveiled>>

\* lines 110-111, the codec decodes the carrier
UnveilLoadOk ==
  /\ pc = "u_load"
  /\ u_carrier.decodable
  /\ img' = <<Decoded(u_carrier)>>
  /\ pc' = "u_prepare"
  /\ trace' = Append(trace, "load")
  /\ UNCHANGED <<hideArgs, payload_size, capacity, encoder, result, unveilVars>>

\* lines 112-124, the codec fails
UnveilLoadErr ==
  /\ pc = "u_load"
  /\ ~u_carrier.decodable
  /\ unveiled' = Err(MsgJxl, "")
  /\ pc' = "u_done"
  /\ trace' = Append(trace, "load")
  /\ UNCHANGED <<hideArgs, hideLocals, result, u_carrier, u_password, session>>

\* lines 127-135: the session with the password and the media
UnveilConfigure ==
  /\ pc = "u_prepare"
  /\ \E pwd \in UnveilPasswords :
       /\ u_password' = pwd
       /\ session' = <<FromMedia(UsingPassword(UnveilPrepare, pwd), img[1])>>
  /\ pc' = "u_execute"
  /\ trace' = Append(trace, "prepare")
  /\ UNCHANGED <<hideArgs, hideLocals, result, u_carrier, unveiled>>

\* lines 134-142, the engine returns files
ExecuteOk ==
  /\ pc = "u_execute"
  /\ \E files \in Extractable(session[1]) : unveiled' = OkFiles(Collect(files))
  /\ pc' = "u_done"
  /\ trace' = Append(trace, "execute")
  /\ UNCHANGED <<hideArgs, hideLocals, result, u_carrier, u_password, session>>

\* lines 134-137, the engine reports a failure: map_err and `?`
ExecuteErr ==
  /\ pc = "u_execute"
  /\ \E d \in EngineDiags : unveiled' = Err(MsgUnveil, d)
  /\ pc' = "u_done"
  /\ trace' = Append(trace, "execute")
  /\ UNCHANGED <<hideArgs, hideLocals, result, u_carrier, u_password, session>>

\* unveil_data has returned
UnveilReturn ==
  /\ pc = "u_done"
  /\ pc' = "idle"
  /\ carrier_data' = NoBytes
  /\ secret_name' = ""
  /\ secret_data' = [len |-> Zero, tag |-> ""]
  /\ password' = <<>>
  /\ should_resize' = FALSE
  /\ output_format_str' = <<>>
  /\ img' = <<>>
  /\ payload_size' = <<>>
  /\ capacity' = <<>>
  /\ encoder' = <<>>
  /\ result' = NoResult
  /\ u_carrier' = NoBytes
  /\ u_password' = <<>>
  /\ session' = <<>>
  /\ unveiled' = NoResult
  /\ trace' = <<>>

Next ==
  \/ HideCall \/ LoadOk \/ LoadErr \/ CapacityCheck \/ ResizeImage \/ ResizeTrap
  \/ Configure \/ UseMedia \/ AddFileOk \/ AddFileErr
  \/ HideToVecOk \/ HideToVecErr \/ HideReturn
  \/ UnveilCall \/ UnveilOutput \/ UnveilLoadOk \/ UnveilLoadErr
  \/ UnveilConfigure \/ ExecuteOk \/ ExecuteErr \/ UnveilReturn

Spec == Init /\ [][Next]_vars

\* ---------------------------------------------------------------------------
\* Properties
\* ---------------------------------------------------------------------------
HidePcs ==
  {"h_load", "h_capacity", "h_resize", "h_configure", "h_use_media",
   "h_add_file", "h_hide_to_vec", "h_done", "h_trapped"}
UnveilPcs == {"u_load", "u_prepare", "u_execute", "u_done"}

\* The carrier's capacity and the payload's requirement as natural numbers
CarrierCapacity == BytesOfPixels(carrier_data.width, carrier_data.height)
Required == WithOverhead(secret_data.len)
ZeroArea == carrier_data.width = Zero \/ carrier_data.height = Zero

HideSteps(resized) ==
  IF resized
  THEN <<"load", "capacity", "resize", "configure", "use_media", "add_file",
         "hide_to_vec">>
  ELSE <<"load", "capacity", "configure", "use_media", "add_file", "hide_to_vec">>

IsPrefix(s, t) == Len(s) <= Len(t) /\ SubSeq(t, 1, Len(s)) = s

EngineFailure == result.status = "err" /\ result.text \in {MsgAddFile, MsgHide}

\* C1: a decodable carrier with floor(w*h*3/8) < n + 1024 and allow_resize =
\* false makes hide fail with InsufficientCapacity carrying exactly
\* capacity = floor(w*h*3/8) and required = n + 1024; no encoder is created.
C1_InsufficientCapacity ==
  (pc \in HidePcs /\ carrier_data.decodable /\ ~should_resize
     /\ BLt(CarrierCapacity, Required))
  => /\ pc \in {"h_load", "h_capacity", "h_done"}
     /\ encoder = <<>>
     /\ pc = "h_done" =>
          /\ result.status = "err"
          /\ result.text = MsgTooSmall
          /\ result.capacity = CarrierCapacity
          /\ result.required = Required
          /\ result.bytes = <<>>

C1_Witness ==
  /\ pc = "h_done"
  /\ ~should_resize
  /\ carrier_data.decodable
  /\ carrier_data.width = BNat(100) /\ carrier_data.height = BNat(100)
  /\ secret_data.len = BNat(3000)
  /\ result.text = MsgTooSmall
  /\ result.capacity = BNat(3750)
  /\ result.required = BNat(4024)

\* C2: a decodable carrier with floor(w*h*3/8) >= n + 1024 and allow_resize =
\* false is never resized and never rejected by this layer: the image handed to
\* the engine, and the encoded result, have width w and height h, the engine
\* can embed, and hide returns the encoded bytes unless the engine itself
\* reports a failure.
C2_SufficientKeepsDimensions ==
  (pc \in HidePcs /\ carrier_data.decodable /\ ~should_resize
     /\ BLeq(Required, CarrierCapacity))
  => /\ pc # "h_resize"
     /\ img # <<>> =>
          /\ img[1].width = carrier_data.width
          /\ img[1].height = carrier_data.height
     /\ (encoder # <<>> /\ encoder[1].media # <<>>) =>
          /\ encoder[1].media[1].width = carrier_data.width
          /\ encoder[1].media[1].height = carrier_data.height
     /\ pc = "h_hide_to_vec" => EngineFits(encoder[1])
     /\ pc = "h_done" =>
          /\ result.status = "ok" \/ EngineFailure
          /\ result.status = "ok" =>
               /\ result.bytes[1].width = carrier_data.width
               /\ result.bytes[1].height = carrier_data.height

C2_Witness ==
  /\ pc = "h_done"
  /\ ~should_resize
  /\ carrier_data.width = BNat(100) /\ carrier_data.height = BNat(100)
  /\ secret_data.len = BNat(2000)
  /\ capacity = <<BNat(3750)>>
  /\ payload_size = <<BNat(3024)>>
  /\ result.status = "ok"
  /\ result.bytes[1].width = BNat(100) /\ result.bytes[1].height = BNat(100)

\* C3: whenever a resize is permitted and required, the resized dimensions
\* satisfy floor(new_width * new_height * 3 / 8) >= n + 1024.
C3_ResizedHoldsPayload ==
  (pc = "h_configure" /\ trace = <<"load", "capacity", "resize">>)
  => BLeq(Required, BytesOfPixels(img[1].width, img[1].height))

\* C4: a carrier with width = 0 or height = 0 always yields
\* InsufficientCapacity: no resize target is computed from the zero pixel
\* count and no zero-area image reaches the engine.
C4_ZeroAreaInfeasible ==
  (pc \in HidePcs /\ carrier_data.decodable /\ ZeroArea)
  => /\ pc \in {"h_load", "h_capacity", "h_done"}
     /\ encoder = <<>>
     /\ pc = "h_done" => (result.status = "err" /\ result.text = MsgTooSmall)

\* C5: when the image is handed to the engine, the capacity this layer has
\* computed is the capacity of the image handed over (of the resized image
\* after a resize).
C5_CapacityOfHandedImage ==
  (pc \in HidePcs /\ encoder # <<>> /\ encoder[1].media # <<>>)
  => capacity = <<BytesOfPixels(encoder[1].media[1].width,
                                encoder[1].media[1].height)>>

\* C7: hide runs load, capacity check (and resize), configuration, hand-off,
\* registration, embedding in this order, each at most once; it has no result
\* before it returns; every call ends by returning; it returns bytes only
\* after every step, and otherwise one error decided by the last step run,
\* with the collaborator's diagnostic.
C7_FirstFailureDecides ==
  /\ pc # "h_trapped"
  /\ pc \in HidePcs => \E r \in BOOLEAN : IsPrefix(trace, HideSteps(r))
  /\ pc \in HidePcs \ {"h_done"} => result = NoResult
  /\ pc = "h_done" =>
       /\ result.status \in {"ok", "err"}
       /\ result.status = "ok" =>
            /\ result.bytes # <<>>
            /\ \E r \in BOOLEAN : trace = HideSteps(r)
            /\ encoder[1].files = <<[name |-> secret_name, data |-> secret_data]>>
       /\ result.status = "err" =>
            /\ result.bytes = <<>>
            /\ result.text \in {MsgLoad, MsgTooSmall, MsgAddFile, MsgHide}
            /\ result.text = MsgLoad =>
                 /\ trace = <<"load">>
                 /\ result.diag = carrier_data.diag
                 /\ img = <<>> /\ encoder = <<>>
            /\ result.text = MsgTooSmall =>
                 /\ trace = <<"load", "capacity">>
                 /\ encoder = <<>>
            /\ result.text = MsgAddFile =>
                 /\ trace[Len(trace)] = "add_file"
                 /\ result.diag \in EngineDiags
                 /\ encoder[1].files = <<>>
            /\ result.text = MsgHide =>
                 /\ trace[Len(trace)] = "hide_to_vec"
                 /\ result.diag \in EngineDiags

\* C8: when the codec cannot decode the carrier, unveil returns the
\* UnsupportedFormat error, whose text is neither the hide path's decode failure
\* nor the extraction failure; no session is created and no file is returned.
\* A session exists only after a successful decode.
C8_UnsupportedFormat ==
  /\ MsgJxl \notin {MsgLoad, MsgUnveil, MsgTooSmall, MsgAddFile, MsgHide}
  /\ (pc \in UnveilPcs /\ ~u_carrier.decodable)
     => /\ pc \in {"u_load", "u_done"}
        /\ session = <<>>
        /\ pc = "u_done" =>
             /\ unveiled.status = "err"
             /\ unveiled.text = MsgJxl
             /\ unveiled.files = <<>>
  /\ session # <<>> => (u_carrier.decodable /\ trace[1] = "load")

C8_Witness ==
  /\ pc = "u_done"
  /\ ~u_carrier.decodable
  /\ unveiled.status = "err"
  /\ unveiled.text = MsgJxl
  /\ session = <<>>

\* ASCII case folding, for "equals case-insensitively"
FoldChar(c) == IF 97 <= c /\ c <= 122 THEN c - 32 ELSE c
EqualsIgnoreCase(str, word) ==
  /\ Len(str) = Len(word)
  /\ \A i \in 1..Len(str) : FoldChar(str[i]) = FoldChar(word[i])

ExpectedFormat(fmt_opt) ==
  IF fmt_opt # <<>> /\ EqualsIgnoreCase(fmt_opt[1], Webp) THEN "WebP"
  ELSE IF fmt_opt # <<>> /\ EqualsIgnoreCase(fmt_opt[1], Avif) THEN "Avif"
  ELSE "Png"

\* C9: the encoder's output format is WebP iff output_format equals "webp"
\* ignoring case, AVIF iff it equals "avif" ignoring case, and PNG otherwise,
\* an absent value included; the returned bytes are in that format.
C9_OutputFormat ==
  (pc \in HidePcs /\ encoder # <<>>)
  => /\ encoder[1].format = ExpectedFormat(output_format_str)
     /\ result.status = "ok" =>
          result.bytes[1].format = ExpectedFormat(output_format_str)

C9_Witness ==
  /\ pc = "h_done"
  /\ result.status = "ok"
  /\ output_format_str = <<<<87, 101, 98, 80>>>>
  /\ result.bytes[1].format = "WebP"

\* C10: for every carrier, the capacity computed in usize is floor(w*h*3/8),
\* the payload size computed in usize is n + 1024, and the u32 product
\* width * height read as the current pixel count is w*h: nothing wraps.
C10_NoWrap ==
  /\ (pc \in HidePcs /\ capacity # <<>>)
     => /\ capacity[1] = CarrierCapacity
        /\ payload_size[1] = Required
  /\ pc = "h_resize"
     => PixelCount(img[1].width, img[1].height) = BMul(img[1].width, img[1].height)

C10_Witness ==
  /\ pc = "h_resize"
  /\ carrier_data.width = BNat(23170) /\ carrier_data.height = BNat(23170)
  /\ secret_data.len = IsizeMax
  /\ capacity = <<BNat(201318337)>>
  /\ payload_size = <<BAdd(BShl(One, 31), BNat(1023))>>

====
